---- MODULE Spec2Model ----
(***************************************************************************)
(* A model of the questionnaire-scoring evaluation harness:                *)
(*   eval_harness.py        calculate_eval_metrics, EvalHarness.run_evals, *)
(*                          EvalHarness.check_pass_fail, the CLI           *)
(*   questionnaire_scorer.py  QuestionnaireScorer._parse_csv_output        *)
(*                                                                         *)
(* Python floats are modelled as exact fractions [num, den] in lowest      *)
(* terms. strip(), lower(), int() and endswith() are computed on the      *)
(* characters of the strings (SubSeq), not assumed.                        *)
(***************************************************************************)
EXTENDS Integers, Sequences, FiniteSets, TLC

VARIABLES
    argv,           \* sys.argv
    eval_dataset,   \* EvalHarness.eval_dataset: the loaded list of cases
    pc,             \* where the command-line run is
    idx,            \* run_evals: position of the for loop in eval_dataset
    results,        \* run_evals: the list `results`
    scored,         \* history: what score_document returned or raised, per case
    results_df,     \* the DataFrame run_evals returned
    csv_file,       \* the content of eval_results.csv
    means,          \* check_pass_fail: `means`, printed as "Average Metrics"
    report,         \* check_pass_fail: the printed threshold checks, in order
    passed,         \* check_pass_fail: its return value
    exit_code,      \* the process's exit status
    csv_rows,       \* _parse_csv_output: the rows csv.DictReader yields for csv_text
    parsed,         \* _parse_csv_output: its return value (or the exception)
    predicted,      \* calculate_eval_metrics: its first argument
    expected,       \* calculate_eval_metrics: its second argument
    metrics,        \* calculate_eval_metrics: its return value (or the exception)
    attr_errors     \* calculate_eval_metrics: the list `errors` of each attribute

harness_vars ==
    <<argv, eval_dataset, pc, idx, results, scored, results_df, csv_file,
      means, report, passed, exit_code>>

parse_vars == <<csv_rows, parsed>>

metrics_vars == <<predicted, expected, metrics, attr_errors>>

vars == <<harness_vars, parse_vars, metrics_vars>>

----------------------------------------------------------------------------
(* Values *)

\* Python's None; a record, so that it compares with dicts without a type error.
None == [none |-> TRUE]

\* An exception that propagates out of a call, with str(e).
Raise(msg) == [exc |-> msg]

IsRaise(v) == DOMAIN v = {"exc"}

RECURSIVE GCD(_, _)
GCD(a, b) == IF b = 0 THEN a ELSE GCD(b, a % b)

\* The float n / d (n >= 0, d > 0), in lowest terms.
Frac(n, d) == LET g == GCD(n, d) IN [num |-> n \div g, den |-> d \div g]

Zero == Frac(0, 1)

One == Frac(1, 1)

IsFloat(v) == DOMAIN v = {"num", "den"}

\* A Python str held in a row (dtype object in the DataFrame).
PyStr(s) == [str |-> s]

FAdd(a, b) == Frac(a.num * b.den + b.num * a.den, a.den * b.den)

FDivInt(a, k) == Frac(a.num, a.den * k)

FLeq(a, b) == a.num * b.den <= b.num * a.den

FGeq(a, b) == a.num * b.den >= b.num * a.den

FLt(a, b) == a.num * b.den < b.num * a.den

Abs(x) == IF x < 0 THEN -x ELSE x

RECURSIVE SeqSum(_)
SeqSum(s) == IF s = <<>> THEN 0 ELSE Head(s) + SeqSum(Tail(s))

----------------------------------------------------------------------------
(* str.strip(), str.lower() and int(str) *)

CharAt(s, i) == SubSeq(s, i, i)

Rest(s) == SubSeq(s, 2, Len(s))

Whitespace == {" ", "\t", "\n"}

UpperToLower == [A |-> "a", E |-> "e", G |-> "g", N |-> "n", O |-> "o"]

LowerChar(c) == IF c \in DOMAIN UpperToLower THEN UpperToLower[c] ELSE c

RECURSIVE Lower(_)
Lower(s) == IF Len(s) = 0 THEN "" ELSE LowerChar(CharAt(s, 1)) \o Lower(Rest(s))

RECURSIVE LStrip(_)
LStrip(s) ==
    IF Len(s) = 0 THEN s
    ELSE IF CharAt(s, 1) \in Whitespace THEN LStrip(Rest(s)) ELSE s

RECURSIVE RStrip(_)
RStrip(s) ==
    IF Len(s) = 0 THEN s
    ELSE IF CharAt(s, Len(s)) \in Whitespace
         THEN RStrip(SubSeq(s, 1, Len(s) - 1))
         ELSE s

Strip(s) == RStrip(LStrip(s))

\* q["question_text"].strip().lower()
NormalizeText(text) == Lower(Strip(text))

DecimalDigits == "0123456789"

IsDigit(c) == \E d \in 0..9 : CharAt(DecimalDigits, d + 1) = c

DigitValue(c) == CHOOSE d \in 0..9 : CharAt(DecimalDigits, d + 1) = c

RECURSIVE AllDigits(_)
AllDigits(s) == Len(s) = 0 \/ (IsDigit(CharAt(s, 1)) /\ AllDigits(Rest(s)))

RECURSIVE DigitsValue(_, _)
DigitsValue(s, acc) ==
    IF Len(s) = 0 THEN acc
    ELSE DigitsValue(Rest(s), 10 * acc + DigitValue(CharAt(s, 1)))

\* The digits of int(cell)'s argument once stripped and without its sign.
IntBody(cell) ==
    LET s == Strip(cell)
    IN  IF Len(s) > 0 /\ CharAt(s, 1) \in {"-", "+"} THEN Rest(s) ELSE s

\* int(cell) returns: an optional sign and at least one decimal digit, with
\* surrounding whitespace allowed; anything else is a ValueError.
IntParses(cell) == Len(IntBody(cell)) > 0 /\ AllDigits(IntBody(cell))

PyInt(cell) ==
    LET s == Strip(cell)
        v == DigitsValue(IntBody(cell), 0)
    IN  IF CharAt(s, 1) = "-" THEN -v ELSE v

----------------------------------------------------------------------------
(* QuestionnaireScorer._parse_csv_output *)

Attributes == <<"clarity", "specificity", "bias", "actionability">>

AttributeSet == {Attributes[i] : i \in 1..Len(Attributes)}

\* The CSV column each score is read from.
ScoreColumn ==
    [clarity |-> "Clarity", specificity |-> "Specificity",
     bias |-> "Bias", actionability |-> "Actionability"]

IntColumns == <<"Question_Number", "Clarity", "Specificity", "Bias", "Actionability">>

CsvColumns == {"Section", "Question_Text"} \cup {IntColumns[i] : i \in 1..Len(IntColumns)}

\* The exception the loop body raises on `row`, or None. A cell the row does
\* not have (a column missing from the header, or a short row, whose cell
\* DictReader fills with None) raises at its first use; a cell int() cannot
\* parse raises ValueError.
RowError(row) ==
    IF CsvColumns \ DOMAIN row # {} THEN Raise("missing cell")
    ELSE IF \E i \in 1..Len(IntColumns) : ~IntParses(row[IntColumns[i]])
    THEN Raise("invalid literal for int() with base 10")
    ELSE None

\* The dict `question` built from a row.
RowQuestion(row) ==
    [section |-> row["Section"],
     question_number |-> PyInt(row["Question_Number"]),
     question_text |-> row["Question_Text"],
     clarity |-> PyInt(row["Clarity"]),
     specificity |-> PyInt(row["Specificity"]),
     bias |-> PyInt(row["Bias"]),
     actionability |-> PyInt(row["Actionability"])]

\* Collecting without the "if section not in section_scores" test: the
\* section's lists are reset by every row of the section.
CollectScoresReset(section_scores, row) ==
    LET section == row["Section"]
    IN  [s \in DOMAIN section_scores \cup {section} |->
            IF s = section
            THEN [a \in AttributeSet |-> <<PyInt(row[ScoreColumn[a]])>>]
            ELSE section_scores[s]]

\* section_scores after "Collect scores by section" for one row.
CollectScores(section_scores, row) ==
    LET section == row["Section"]
        known == IF section \in DOMAIN section_scores
                 THEN section_scores
                 ELSE [s \in DOMAIN section_scores \cup {section} |->
                          IF s = section THEN [a \in AttributeSet |-> <<>>]
                          ELSE section_scores[s]]
    IN  [known EXCEPT ![section] =
            [a \in AttributeSet |-> Append(@[a], PyInt(row[ScoreColumn[a]]))]]

\* "Calculate averages": sum(vals) / len(vals) per section and attribute.
SectionAverages(section_scores) ==
    [s \in DOMAIN section_scores |->
        [a \in AttributeSet |->
            Frac(SeqSum(section_scores[s][a]), Len(section_scores[s][a]))]]

\* The loop over the reader's rows, then the return value; an exception
\* raised by a row propagates out of the function.
RECURSIVE ParseRows(_, _, _)
ParseRows(rows, questions, section_scores) ==
    IF rows = <<>>
    THEN [questions |-> questions,
          section_averages |-> SectionAverages(section_scores)]
    ELSE IF RowError(Head(rows)) # None THEN RowError(Head(rows))
    ELSE ParseRows(Tail(rows),
                   Append(questions, RowQuestion(Head(rows))),
                   CollectScores(section_scores, Head(rows)))

ParseCsvOutput(rows) == ParseRows(rows, <<>>, <<>>)

----------------------------------------------------------------------------
(* calculate_eval_metrics *)

\* The key set without normalization.
QuestionKeysRaw(qs) == {qs[i].question_text : i \in 1..Len(qs)}

\* {q["question_text"].strip().lower() for q in result["questions"]}
QuestionKeys(qs) == {NormalizeText(qs[i].question_text) : i \in 1..Len(qs)}

\* Extraction accuracy over the question lists, duplicates counted.
ExtractionAccuracyLists(pred_qs, exp_qs) ==
    IF Len(exp_qs) > 0
    THEN Frac(Cardinality({i \in 1..Len(exp_qs) :
                  NormalizeText(exp_qs[i].question_text) \in QuestionKeys(pred_qs)}),
              Len(exp_qs))
    ELSE Zero

ExtractionAccuracy(pred_qs, exp_qs) ==
    LET pred_questions == QuestionKeys(pred_qs)
        exp_questions == QuestionKeys(exp_qs)
    IN  IF Cardinality(exp_questions) > 0
        THEN Frac(Cardinality(pred_questions \cap exp_questions),
                  Cardinality(exp_questions))
        ELSE Zero

\* The last predicted question whose text matches, not the first.
RECURSIVE LastMatch(_, _)
LastMatch(pred_qs, exp_text) ==
    IF pred_qs = <<>> THEN None
    ELSE IF NormalizeText(pred_qs[Len(pred_qs)].question_text) = exp_text
         THEN pred_qs[Len(pred_qs)]
         ELSE LastMatch(SubSeq(pred_qs, 1, Len(pred_qs) - 1), exp_text)

\* next((q for q in predicted["questions"] if <text matches>), None)
RECURSIVE FirstMatch(_, _)
FirstMatch(pred_qs, exp_text) ==
    IF pred_qs = <<>> THEN None
    ELSE IF NormalizeText(Head(pred_qs).question_text) = exp_text
         THEN Head(pred_qs)
         ELSE FirstMatch(Tail(pred_qs), exp_text)

\* The list of errors with one entry per distinct matched text: an expected
\* question whose text comes again later in the list is skipped.
RECURSIVE AttrErrorsDistinct(_, _, _)
AttrErrorsDistinct(attr, pred_qs, exp_qs) ==
    IF exp_qs = <<>> THEN <<>>
    ELSE LET exp_q == Head(exp_qs)
             text == NormalizeText(exp_q.question_text)
             pred_q == FirstMatch(pred_qs, text)
             again == \E i \in 2..Len(exp_qs) :
                          NormalizeText(exp_qs[i].question_text) = text
         IN  (IF pred_q # None /\ ~again
              THEN <<Abs(pred_q[attr] - exp_q[attr])>>
              ELSE <<>>)
             \o AttrErrorsDistinct(attr, pred_qs, Tail(exp_qs))

\* The list `errors` after the loop over expected["questions"] for one attribute.
RECURSIVE AttrErrors(_, _, _)
AttrErrors(attr, pred_qs, exp_qs) ==
    IF exp_qs = <<>> THEN <<>>
    ELSE LET exp_q == Head(exp_qs)
             pred_q == FirstMatch(pred_qs, NormalizeText(exp_q.question_text))
         IN  (IF pred_q # None
              THEN <<Abs(pred_q[attr] - exp_q[attr])>>
              ELSE <<>>)
             \o AttrErrors(attr, pred_qs, Tail(exp_qs))

\* sum(errors) / len(errors) if errors else 0.0
ScoreMae(errors) ==
    IF errors # <<>> THEN Frac(SeqSum(errors), Len(errors)) ELSE Zero

\* The list `within_1`: one bool per error, True as 1 in sum().
Within1(errors) == [i \in 1..Len(errors) |-> IF errors[i] <= 1 THEN 1 ELSE 0]

ScoreWithin1(within_1) ==
    IF within_1 # <<>> THEN Frac(SeqSum(within_1), Len(within_1)) ELSE Zero

\* expected.get("section_averages") is truthy: present and a non-empty dict.
HasSections(result) ==
    /\ "section_averages" \in DOMAIN result
    /\ DOMAIN result.section_averages # {}

SectionDetection(pred, exp) ==
    IF HasSections(exp)
    THEN LET pred_sections == DOMAIN pred.section_averages
             exp_sections == DOMAIN exp.section_averages
         IN  Frac(Cardinality(pred_sections \cap exp_sections),
                  Cardinality(exp_sections))
    ELSE Zero

\* The first KeyError the function raises on an expected output that lacks a
\* field, or None: expected["questions"], q["question_text"] (line 35), and
\* exp_q[attr] of a matched question (line 58).
MetricsKeyError(pred, exp) ==
    IF "questions" \notin DOMAIN exp THEN Raise("'questions'")
    ELSE IF \E i \in 1..Len(exp.questions) :
                "question_text" \notin DOMAIN exp.questions[i]
    THEN Raise("'question_text'")
    ELSE IF \E i \in 1..Len(exp.questions), a \in AttributeSet :
                /\ a \notin DOMAIN exp.questions[i]
                /\ NormalizeText(exp.questions[i].question_text)
                       \in QuestionKeys(pred.questions)
    THEN Raise("missing attribute")
    ELSE None

\* The list `errors` of every attribute of the loop "for attr in attributes".
AllAttrErrors(pred, exp) ==
    [a \in AttributeSet |-> AttrErrors(a, pred.questions, exp.questions)]

\* The dict `metrics` the function returns, given the lists of errors.
MetricsDict(pred, exp, errors_of) ==
    [extraction_accuracy |-> ExtractionAccuracy(pred.questions, exp.questions),
     score_mae |-> [a \in AttributeSet |-> ScoreMae(errors_of[a])],
     score_within_1 |->
         [a \in AttributeSet |-> ScoreWithin1(Within1(errors_of[a]))],
     section_detection |-> SectionDetection(pred, exp)]

CalculateEvalMetrics(pred, exp) ==
    LET raised == MetricsKeyError(pred, exp)
        errors_of == AllAttrErrors(pred, exp)
    IN  IF raised # None THEN raised ELSE MetricsDict(pred, exp, errors_of)

----------------------------------------------------------------------------
(* EvalHarness.run_evals *)

\* f"{attr}_mae" and f"{attr}_within_1"
MaeColumn(attr) == attr \o "_mae"

Within1Column(attr) == attr \o "_within_1"

\* The flattened row of a case whose metrics were computed.
SuccessRow(eval_id, m) ==
    LET columns == {"eval_id", "extraction_acc", "section_detection"}
                   \cup {MaeColumn(a) : a \in AttributeSet}
                   \cup {Within1Column(a) : a \in AttributeSet}
    IN  [c \in columns |->
            IF c = "eval_id" THEN PyStr(eval_id)
            ELSE IF c = "extraction_acc" THEN m.extraction_accuracy
            ELSE IF c = "section_detection" THEN m.section_detection
            ELSE IF \E a \in AttributeSet : c = MaeColumn(a)
                 THEN m.score_mae[CHOOSE a \in AttributeSet : c = MaeColumn(a)]
                 ELSE m.score_within_1[CHOOSE a \in AttributeSet :
                                          c = Within1Column(a)]]

\* Error rows that also carry the numeric columns, as zeros.
ErrorRowZeros(eval_id, e) ==
    [c \in DOMAIN SuccessRow(eval_id, [extraction_accuracy |-> Zero,
                                       section_detection |-> Zero,
                                       score_mae |-> [a \in AttributeSet |-> Zero],
                                       score_within_1 |-> [a \in AttributeSet |-> Zero]])
                \cup {"error"} |->
        IF c = "eval_id" THEN PyStr(eval_id)
        ELSE IF c = "error" THEN PyStr(e.exc) ELSE Zero]

\* The row appended by the except clause: {"eval_id": eval_id, "error": str(e)}
ErrorRow(eval_id, e) == [eval_id |-> PyStr(eval_id), error |-> PyStr(e.exc)]

\* The body of the try block up to calculate_eval_metrics: what it computes
\* (the metrics) or the exception it raises. `outcome` is what
\* score_document returns or raises when it is called.
TryBody(eval_case, outcome) ==
    IF "document" \notin DOMAIN eval_case THEN Raise("'document'")
    ELSE IF IsRaise(outcome) THEN outcome
    ELSE IF "expected_output" \notin DOMAIN eval_case THEN Raise("'expected_output'")
    ELSE CalculateEvalMetrics(outcome, eval_case.expected_output)

\* The row one iteration of the loop appends for a case that has an id.
CaseRow(eval_case, outcome) ==
    LET tried == TryBody(eval_case, outcome)
    IN  IF IsRaise(tried)
        THEN ErrorRow(eval_case.id, tried)
        ELSE SuccessRow(eval_case.id, tried)

\* Inserting the row at the front of the list.
PrependRow(rows, row) == <<row>> \o rows

\* results.append(row)
AppendRow(rows, row) == Append(rows, row)

----------------------------------------------------------------------------
(* EvalHarness.check_pass_fail *)

THRESHOLDS ==
    [extraction_accuracy |-> Frac(95, 100),
     clarity_mae |-> Frac(5, 10),
     specificity_mae |-> Frac(5, 10),
     bias_mae |-> Frac(7, 10),
     actionability_mae |-> Frac(8, 10),
     clarity_within_1 |-> Frac(85, 100),
     specificity_within_1 |-> Frac(85, 100),
     bias_within_1 |-> Frac(80, 100),
     actionability_within_1 |-> Frac(80, 100)]

\* THRESHOLDS.items(), in the dict's insertion order.
ThresholdOrder ==
    <<"extraction_accuracy", "clarity_mae", "specificity_mae", "bias_mae",
      "actionability_mae", "clarity_within_1", "specificity_within_1",
      "bias_within_1", "actionability_within_1">>

\* s.endswith(suffix)
EndsWith(s, suffix) ==
    /\ Len(s) >= Len(suffix)
    /\ SubSeq(s, Len(s) - Len(suffix) + 1, Len(s)) = suffix

\* The DataFrame's columns: the keys of its rows; a row without the key
\* holds NaN there.
Columns(df) == UNION {DOMAIN df[i] : i \in 1..Len(df)}

\* select_dtypes(include=['float64', 'int64']): the columns holding numbers.
NumericCols(df) ==
    {c \in Columns(df) :
        \A i \in 1..Len(df) : c \in DOMAIN df[i] => IsFloat(df[i][c])}

RECURSIVE ColumnSum(_, _)
ColumnSum(df, c) ==
    IF df = <<>> THEN Zero
    ELSE IF c \in DOMAIN Head(df)
         THEN FAdd(Head(df)[c], ColumnSum(Tail(df), c))
         ELSE ColumnSum(Tail(df), c)

ColumnCount(df, c) == Cardinality({i \in 1..Len(df) : c \in DOMAIN df[i]})

\* A mean that counts the rows without the column as zeros.
ColumnMeanFillZero(df, c) == FDivInt(ColumnSum(df, c), Len(df))

\* Series.mean(): NaN entries are skipped.
ColumnMean(df, c) == FDivInt(ColumnSum(df, c), ColumnCount(df, c))

\* results_df[numeric_cols].mean()
Means(df) == [c \in NumericCols(df) |-> ColumnMean(df, c)]

\* The comparison of one metric with the boundary excluded.
MetricPassesStrict(metric, actual, threshold) ==
    IF EndsWith(metric, "_mae")
    THEN FLt(actual, threshold)
    ELSE FLt(threshold, actual)

\* The comparison of one metric: MAE metrics lower is better, others higher.
MetricPasses(metric, actual, threshold) ==
    IF EndsWith(metric, "_mae")
    THEN FLeq(actual, threshold)
    ELSE FGeq(actual, threshold)

\* The loop over THRESHOLDS.items(): the checks printed so far and all_passed.
RECURSIVE CheckThresholds(_, _, _, _)
CheckThresholds(todo, mean_of, checks, all_passed) ==
    IF todo = <<>> THEN [report |-> checks, all_passed |-> all_passed]
    ELSE LET metric == Head(todo)
         IN  IF metric \notin DOMAIN mean_of
             THEN CheckThresholds(Tail(todo), mean_of, checks, all_passed)
             ELSE LET ok == MetricPasses(metric, mean_of[metric], THRESHOLDS[metric])
                  IN  CheckThresholds(
                          Tail(todo), mean_of,
                          Append(checks, [metric |-> metric,
                                          actual |-> mean_of[metric],
                                          passed |-> ok]),
                          IF ~ok THEN FALSE ELSE all_passed)

\* A gate that does not pass by omission: with no metric of the table among
\* the means, the verdict is False.
CheckPassFailNoOmission(df) ==
    CheckThresholds(ThresholdOrder, Means(df), <<>>,
                    DOMAIN THRESHOLDS \cap DOMAIN Means(df) # {})

\* all_passed = True, then the loop over THRESHOLDS.items()
CheckPassFail(df) == CheckThresholds(ThresholdOrder, Means(df), <<>>, TRUE)

----------------------------------------------------------------------------
(* Inputs *)

SeqsUpTo(S, n) == UNION { [1..k -> S] : k \in 0..n }

MakeRow(section, number, text, scores) ==
    [Section |-> section, Question_Number |-> number, Question_Text |-> text,
     Clarity |-> scores[1], Specificity |-> scores[2],
     Bias |-> scores[3], Actionability |-> scores[4]]

\* Rows of a CSV the scorer parses without error, all of one section: two
\* whose text normalizes to "age" (with different scores) and two to "no".
MetricsCsvRows ==
    { MakeRow("General", "1", "Age", <<"5", "5", "5", "5">>),
      MakeRow("General", "2", "\tAGE ", <<"4", "3", "5", "1">>),
      MakeRow("General", "3", "No", <<"5", "5", "5", "5">>),
      MakeRow("General", "4", " no", <<"4", "3", "5", "1">>) }

MaxPredicted == 2

MaxExpected == 3

\* Scoring results of up to n questions, as the scorer builds them.
SampleResults(n) ==
    { ParseCsvOutput(rows) : rows \in SeqsUpTo(MetricsCsvRows, n) }

PredictedResults == SampleResults(MaxPredicted)

ExpectedResults == SampleResults(MaxExpected)

\* Cells of rows as a model may return them: in range, padded, out of the
\* 1..5 range, and not an integer.
CsvScores ==
    { <<"5", "4", "3", "1">>, <<" 2", "2", "5", "4 ">>, <<"0", "7", "-1", "10">>,
      <<"3", "x", "3", "3">>, <<"3", "3", "", "4.5">> }

CsvRows ==
    { MakeRow(sec, num, "Age", s) :
        sec \in {"General", "Demographics"}, num \in {"1", "Q1"}, s \in CsvScores }
    \cup { [Section |-> "General", Question_Number |-> "2"] }

MaxCsvRows == 2

\* The expected output of the sample cases: two questions, scored 5.
ExpectedAgeNo ==
    ParseCsvOutput(<<MakeRow("General", "1", "Age", <<"5", "5", "5", "5">>),
                     MakeRow("General", "2", "No", <<"5", "5", "5", "5">>)>>)

\* The cases a dataset file may hold: well-formed ones, and entries that miss
\* a field (questions inside expected_output, expected_output, document, id).
SampleCases ==
    { [id |-> "e1", document |-> "a.docx", expected_output |-> ExpectedAgeNo],
      [id |-> "e2", document |-> "b.pdf", expected_output |-> ExpectedAgeNo],
      [id |-> "e1", document |-> "a.docx",
       expected_output |-> [section_averages |-> <<>>]],
      [id |-> "e2", document |-> "b.pdf"],
      [id |-> "e1", expected_output |-> ExpectedAgeNo],
      [document |-> "a.docx", expected_output |-> ExpectedAgeNo] }

MaxCases == 2

\* The CSV rows the scoring model may answer with: both questions with the
\* expected scores, only the first question, both questions scored 1, and a
\* row whose score is not an integer.
ScorerResponses ==
    { <<MakeRow("General", "1", "\tAGE ", <<"5", "5", "5", "5">>),
        MakeRow("General", "2", " no", <<"5", "5", "5", "5">>)>>,
      <<MakeRow("General", "1", "\tAGE ", <<"5", "5", "5", "5">>)>>,
      <<MakeRow("General", "1", "Age", <<"1", "1", "1", "1">>),
        MakeRow("Other", "2", "No", <<"1", "1", "1", "1">>)>>,
      <<MakeRow("General", "1", "Age", <<"5", "n/a", "5", "5">>)>> }

\* What score_document returns or raises: the parse of the model's answer.
ScorerOutcomes == { ParseCsvOutput(rows) : rows \in ScorerResponses }

\* The variables a specification of one function leaves unused.
HarnessUnused ==
    /\ argv = None /\ eval_dataset = None /\ pc = None /\ idx = None
    /\ results = None /\ scored = None /\ results_df = None /\ csv_file = None
    /\ means = None /\ report = None /\ passed = None /\ exit_code = None

ParseUnused == csv_rows = None /\ parsed = None

MetricsUnused ==
    predicted = None /\ expected = None /\ metrics = None /\ attr_errors = None

----------------------------------------------------------------------------
(* The command-line run: __main__, run_evals, check_pass_fail *)

Init ==
    /\ argv \in {<<"eval_harness.py">>, <<"eval_harness.py", "dataset.json">>}
    /\ eval_dataset = None
    /\ pc = "main"
    /\ idx = 1
    /\ results = <<>>
    /\ scored = <<>>
    /\ results_df = None
    /\ csv_file = None
    /\ means = None
    /\ report = None
    /\ passed = None
    /\ exit_code = None
    /\ ParseUnused
    /\ MetricsUnused

\* len(sys.argv) < 2: print the usage and sys.exit(1).
MainUsage ==
    /\ pc = "main"
    /\ Len(argv) < 2
    /\ pc' = "exited"
    /\ exit_code' = 1
    /\ UNCHANGED <<argv, eval_dataset, idx, results, scored, results_df,
                   csv_file, means, report, passed, parse_vars, metrics_vars>>

\* harness = EvalHarness(sys.argv[1]): the dataset file is loaded.
MainConstruct ==
    /\ pc = "main"
    /\ Len(argv) >= 2
    /\ \E dataset \in SeqsUpTo(SampleCases, MaxCases) : eval_dataset' = dataset
    /\ pc' = "run_evals"
    /\ UNCHANGED <<argv, idx, results, scored, results_df, csv_file, means,
                   report, passed, exit_code, parse_vars, metrics_vars>>

\* One iteration of the for loop. eval_case["id"] is read before the try
\* block: its KeyError leaves run_evals and ends the process with a traceback
\* (exit status 1). Everything after it is inside the try block.
RunEvalsStep ==
    /\ pc = "run_evals"
    /\ idx <= Len(eval_dataset)
    /\ LET eval_case == eval_dataset[idx]
       IN  IF "id" \notin DOMAIN eval_case
           THEN /\ pc' = "crashed"
                /\ exit_code' = 1
                /\ UNCHANGED <<idx, results, scored>>
           ELSE /\ \E outcome \in ScorerOutcomes :
                     LET called == IF "document" \in DOMAIN eval_case
                                   THEN outcome ELSE None
                     IN  /\ results' = AppendRow(results, CaseRow(eval_case, called))
                         /\ scored' = Append(scored, called)
                /\ idx' = idx + 1
                /\ UNCHANGED <<pc, exit_code>>
    /\ UNCHANGED <<argv, eval_dataset, results_df, csv_file, means, report,
                   passed, parse_vars, metrics_vars>>

\* return pd.DataFrame(results)
RunEvalsReturn ==
    /\ pc = "run_evals"
    /\ idx > Len(eval_dataset)
    /\ results_df' = results
    /\ pc' = "to_csv"
    /\ UNCHANGED <<argv, eval_dataset, idx, results, scored, csv_file, means,
                   report, passed, exit_code, parse_vars, metrics_vars>>

\* results_df.to_csv("eval_results.csv", index=False)
SaveResults ==
    /\ pc = "to_csv"
    /\ csv_file' = results_df
    /\ pc' = "check_pass_fail"
    /\ UNCHANGED <<argv, eval_dataset, idx, results, scored, results_df, means,
                   report, passed, exit_code, parse_vars, metrics_vars>>

\* passed = harness.check_pass_fail(results_df)
CheckPassFailCall ==
    /\ pc = "check_pass_fail"
    /\ means' = Means(results_df)
    /\ report' = CheckPassFail(results_df).report
    /\ passed' = CheckPassFail(results_df).all_passed
    /\ pc' = "sys_exit"
    /\ UNCHANGED <<argv, eval_dataset, idx, results, scored, results_df,
                   csv_file, exit_code, parse_vars, metrics_vars>>

\* sys.exit(0 if passed else 1)
SysExit ==
    /\ pc = "sys_exit"
    /\ exit_code' = (IF passed THEN 0 ELSE 1)
    /\ pc' = "exited"
    /\ UNCHANGED <<argv, eval_dataset, idx, results, scored, results_df,
                   csv_file, means, report, passed, parse_vars, metrics_vars>>

Next ==
    \/ MainUsage
    \/ MainConstruct
    \/ RunEvalsStep
    \/ RunEvalsReturn
    \/ SaveResults
    \/ CheckPassFailCall
    \/ SysExit

Spec == Init /\ [][Next]_vars

----------------------------------------------------------------------------
(* check_pass_fail applied to sample DataFrames *)

MaxGateCols == 2

MaxGateRows == 1

\* The numeric columns of the sample frames: the metrics of the threshold
\* table and the accuracy column run_evals writes.
GateColumns == DOMAIN THRESHOLDS \cup {"extraction_acc"}

GateThreshold(c) == IF c \in DOMAIN THRESHOLDS THEN THRESHOLDS[c] ELSE Frac(95, 100)

\* Values just below, at and just above a threshold.
NearValues(t) ==
    { Frac(t.num * 20 - t.den, t.den * 20), t, Frac(t.num * 20 + t.den, t.den * 20) }

\* The rows of a frame with numeric columns `cols`: an error row, or a row
\* holding a value near its threshold in every column.
GateRows(cols) ==
    { ErrorRow("e1", Raise("failed")) }
    \cup { [c \in cols \cup {"eval_id"} |->
               IF c = "eval_id" THEN PyStr("e1") ELSE f[c]] :
           f \in { g \in [cols -> UNION {NearValues(GateThreshold(c)) : c \in cols}] :
                      \A c \in cols : g[c] \in NearValues(GateThreshold(c)) } }

GateFrames ==
    UNION { SeqsUpTo(GateRows(cols), MaxGateRows) :
              cols \in {S \in SUBSET GateColumns : Cardinality(S) <= MaxGateCols} }

GateInit ==
    /\ results_df \in GateFrames
    /\ pc = "check_pass_fail"
    /\ argv = None /\ eval_dataset = None /\ idx = None /\ results = None
    /\ scored = None /\ csv_file = None /\ means = None /\ report = None
    /\ passed = None /\ exit_code = None
    /\ ParseUnused
    /\ MetricsUnused

GateNext == CheckPassFailCall

SpecGate == GateInit /\ [][GateNext]_vars

\* The gate followed by sys.exit(0 if passed else 1), as __main__ calls them.
GateExitNext == CheckPassFailCall \/ SysExit

SpecGateExit == GateInit /\ [][GateExitNext]_vars

----------------------------------------------------------------------------
(* calculate_eval_metrics applied to sample results *)

MetricsInit ==
    /\ predicted \in PredictedResults
    /\ expected \in ExpectedResults
    /\ metrics = None
    /\ attr_errors = None
    /\ ParseUnused
    /\ HarnessUnused

CalculateEvalMetricsCall ==
    /\ metrics = None
    /\ LET raised == MetricsKeyError(predicted, expected)
           errors_of == AllAttrErrors(predicted, expected)
       IN  IF raised # None
           THEN metrics' = raised /\ attr_errors' = None
           ELSE /\ metrics' = MetricsDict(predicted, expected, errors_of)
                /\ attr_errors' = errors_of
    /\ UNCHANGED <<predicted, expected, parse_vars, harness_vars>>

MetricsNext == CalculateEvalMetricsCall

SpecMetrics == MetricsInit /\ [][MetricsNext]_vars

----------------------------------------------------------------------------
(* _parse_csv_output applied to sample CSV rows *)

ParseInit ==
    /\ csv_rows \in SeqsUpTo(CsvRows, MaxCsvRows)
    /\ parsed = None
    /\ MetricsUnused
    /\ HarnessUnused

ParseCsvOutputCall ==
    /\ parsed = None
    /\ parsed' = ParseCsvOutput(csv_rows)
    /\ UNCHANGED <<csv_rows, metrics_vars, harness_vars>>

ParseNext == ParseCsvOutputCall

SpecParse == ParseInit /\ [][ParseNext]_vars

----------------------------------------------------------------------------
(* Properties of calculate_eval_metrics (SpecMetrics) *)

MetricsDone == metrics # None /\ ~IsRaise(metrics)

ExpQ(i) == expected.questions[i]

PredQ(j) == predicted.questions[j]

\* The trimmed, lower-cased texts, by position.
ExpKey == [i \in 1..Len(expected.questions) |-> NormalizeText(ExpQ(i).question_text)]

PredKey == [j \in 1..Len(predicted.questions) |-> NormalizeText(PredQ(j).question_text)]

Matches(i, j) == PredKey[j] = ExpKey[i]

\* The expected questions some predicted question matches, by position.
MatchedIdx ==
    {i \in 1..Len(expected.questions) :
        \E j \in 1..Len(predicted.questions) : Matches(i, j)}

\* C3: for each attribute, score_mae is the mean of |predicted - expected| over
\* the expected questions, in order, that have a predicted question of equal
\* trimmed, lower-cased text, each paired with the FIRST such predicted
\* question; score_within_1 is the fraction of those errors <= 1; both are 0.0
\* when no expected question is matched.
C3_FirstMatchErrors ==
    MetricsDone =>
        LET ekey == ExpKey
            pkey == PredKey
            matched == {i \in DOMAIN ekey : \E j \in DOMAIN pkey : pkey[j] = ekey[i]}
            \* the position of the first predicted question matching expected i
            first == [i \in matched |->
                        CHOOSE j \in DOMAIN pkey :
                            /\ pkey[j] = ekey[i]
                            /\ \A k \in 1..(j - 1) : pkey[k] # ekey[i]]
            \* the k-th matched expected question, in expected order
            nth == [k \in 1..Cardinality(matched) |->
                        CHOOSE i \in matched :
                            Cardinality({m \in matched : m < i}) = k - 1]
            n == Cardinality(matched)
        IN  \A a \in AttributeSet :
                LET errs == [k \in 1..n |->
                                Abs(PredQ(first[nth[k]])[a] - ExpQ(nth[k])[a])]
                    close == Cardinality({k \in 1..n : errs[k] <= 1})
                IN  /\ metrics.score_mae[a] =
                           (IF n = 0 THEN Zero ELSE Frac(SeqSum(errs), n))
                    /\ metrics.score_within_1[a] =
                           (IF n = 0 THEN Zero ELSE Frac(close, n))

\* C3 witness: two predicted questions of equal normalized text and different
\* clarity, an expected question matching both, and an unmatched expected one.
C3_Witness ==
    /\ MetricsDone
    /\ Len(predicted.questions) = 2
    /\ Len(expected.questions) = 2
    /\ Matches(1, 1) /\ Matches(1, 2)
    /\ PredQ(1).clarity # PredQ(2).clarity
    /\ PredQ(1).question_text # ExpQ(1).question_text
    /\ MatchedIdx = {1}
    /\ metrics.score_mae["clarity"] = One

ExpKeys == {ExpKey[i] : i \in DOMAIN ExpKey}

PredKeys == {PredKey[j] : j \in DOMAIN PredKey}

\* C4: extraction_accuracy is |P \cap E| / |E| over the SETS of trimmed,
\* lower-cased texts (duplicates collapse), and 0.0 when E is empty.
C4_ExtractionAccuracy ==
    MetricsDone =>
        LET acc == metrics.extraction_accuracy
        IN  IF ExpKeys = {} THEN acc = Zero
            ELSE acc.num * Cardinality(ExpKeys)
                     = acc.den * Cardinality(PredKeys \cap ExpKeys)

\* C4 witness: three expected questions, two of them of one normalized text,
\* and a predicted question matching those two: 1 of 2 keys, not 2 of 3.
C4_Witness ==
    /\ MetricsDone
    /\ Len(expected.questions) = 3
    /\ Cardinality(ExpKeys) = 2
    /\ MatchedIdx = {1, 2}
    /\ metrics.extraction_accuracy = Frac(1, 2)

\* C9 as stated: extraction_accuracy is 1.0 whenever the normalized text sets
\* are identical, and 0.0 when the expected set is non-empty and disjoint from
\* the predicted set.
C9_AsStated ==
    MetricsDone =>
        /\ (PredKeys = ExpKeys => metrics.extraction_accuracy = One)
        /\ (ExpKeys # {} /\ PredKeys \cap ExpKeys = {}
                => metrics.extraction_accuracy = Zero)

\* C9 amended: extraction_accuracy is 1.0 whenever the normalized text sets are
\* identical and non-empty, and 0.0 when the expected set is non-empty and
\* disjoint from the predicted set (two empty sets give 0.0).
C9_IdenticalNonEmpty ==
    MetricsDone =>
        /\ (PredKeys = ExpKeys /\ ExpKeys # {}
                => metrics.extraction_accuracy = One)
        /\ (ExpKeys # {} /\ PredKeys \cap ExpKeys = {}
                => metrics.extraction_accuracy = Zero)

\* C9 witness: identical non-empty key sets from texts that differ in case and
\* whitespace.
C9_Witness ==
    /\ MetricsDone
    /\ PredKeys = ExpKeys
    /\ ExpKeys # {}
    /\ QuestionKeysRaw(predicted.questions) \cap QuestionKeysRaw(expected.questions) = {}
    /\ metrics.extraction_accuracy = One

\* C14: all four attributes have the same number of matched pairs, the
\* number of expected questions, counted with multiplicity, whose trimmed,
\* lower-cased text is in the predicted key set; and the zero-match default
\* (score_mae and score_within_1 both 0.0 for every attribute) occurs
\* exactly when there is no matched pair, which is exactly when
\* extraction_accuracy is 0.0.
C14_MatchedPairs ==
    MetricsDone =>
        LET n == Cardinality({i \in DOMAIN ExpKey : ExpKey[i] \in PredKeys})
            default == \A a \in AttributeSet :
                           /\ metrics.score_mae[a] = Zero
                           /\ metrics.score_within_1[a] = Zero
        IN  /\ \A a \in AttributeSet : Len(attr_errors[a]) = n
            /\ (n = 0) = (metrics.extraction_accuracy = Zero)
            /\ default = (metrics.extraction_accuracy = Zero)

\* C14 witness: two expected questions of one normalized text and a third
\* unmatched one, with two predicted questions of that text: one matched key
\* out of two, and two matched pairs for every attribute.
C14_Witness ==
    /\ MetricsDone
    /\ Len(expected.questions) = 3
    /\ Len(predicted.questions) = 2
    /\ ExpKey[1] = ExpKey[2]
    /\ ExpQ(1).clarity # ExpQ(2).clarity
    /\ PredKeys \cap ExpKeys = {ExpKey[1]}
    /\ Cardinality(ExpKeys) = 2
    /\ \A a \in AttributeSet : Len(attr_errors[a]) = 2
    /\ attr_errors["clarity"] = <<1, 0>>
    /\ metrics.extraction_accuracy = Frac(1, 2)

----------------------------------------------------------------------------
(* Properties of _parse_csv_output (SpecParse) *)

ParseDone == parsed # None /\ ~IsRaise(parsed)

SectionsOf(questions) == {questions[i].section : i \in 1..Len(questions)}

RECURSIVE SumOver(_, _, _)
SumOver(questions, members, a) ==
    IF members = {} THEN 0
    ELSE LET i == CHOOSE m \in members : TRUE
         IN  questions[i][a] + SumOver(questions, members \ {i}, a)

\* C10: the keys of section_averages are exactly the sections appearing in
\* questions, and each average is the mean of the attribute over the
\* questions of that section.
C10_SectionAverages ==
    ParseDone =>
        /\ DOMAIN parsed.section_averages = SectionsOf(parsed.questions)
        /\ \A s \in SectionsOf(parsed.questions), a \in AttributeSet :
              LET members == {i \in 1..Len(parsed.questions) :
                                 parsed.questions[i].section = s}
              IN  parsed.section_averages[s][a] =
                      Frac(SumOver(parsed.questions, members, a),
                           Cardinality(members))

\* C10 witness: a result with two rows of one section and different scores.
C10_Witness ==
    /\ ParseDone
    /\ Len(parsed.questions) = 2
    /\ SectionsOf(parsed.questions) = {"General"}
    /\ parsed.questions[1].clarity # parsed.questions[2].clarity
    /\ parsed.section_averages["General"]["clarity"] = Frac(7, 2)

\* C11 as stated: every question of a result the parse returns has its four
\* scores in 1..5, whatever integers the cells of the rows hold.
C11_AsStated ==
    ParseDone =>
        \A i \in 1..Len(parsed.questions), a \in AttributeSet :
            parsed.questions[i][a] \in 1..5

----------------------------------------------------------------------------
(* Properties of run_evals and the command-line run (Spec) *)

\* The dataset has been loaded: the run is past EvalHarness(sys.argv[1]).
Loaded == pc # "main" /\ ~(pc = "exited" /\ Len(argv) < 2)

\* run_evals has returned its DataFrame.
Returned == Loaded /\ pc \notin {"run_evals", "crashed"}

\* check_pass_fail has returned.
GateDone == means # None

\* The scoring call or the metrics computation of case i raised.
CaseFailed(i) ==
    /\ scored[i] # None
    /\ \/ IsRaise(scored[i])
       \/ /\ "expected_output" \in DOMAIN eval_dataset[i]
          /\ IsRaise(CalculateEvalMetrics(scored[i], eval_dataset[i].expected_output))

\* C1: a case whose scoring call or metrics computation raises yields a row
\* of exactly eval_id and error, and its failure does not abort the run: the
\* loop goes on to the next case, the only exit without a DataFrame is the
\* KeyError of an entry without an id, and a returned DataFrame has a row for
\* every case.
C1_FailureIsolated ==
    Loaded =>
        /\ \A i \in 1..Len(results) :
              CaseFailed(i) =>
                  /\ DOMAIN results[i] = {"eval_id", "error"}
                  /\ results[i].eval_id = PyStr(eval_dataset[i].id)
                  /\ idx > i
        /\ pc = "crashed" => "id" \notin DOMAIN eval_dataset[idx]
        /\ Returned => Len(results_df) = Len(eval_dataset)

\* C1 witness: the first case's scoring call raised, the second case was
\* still scored, and run_evals returned both rows.
C1_Witness ==
    /\ Returned
    /\ Len(results_df) = 2
    /\ IsRaise(scored[1])
    /\ DOMAIN results_df[1] = {"eval_id", "error"}
    /\ "extraction_acc" \in DOMAIN results_df[2]

\* The rows without an error field.
SuccessRows(df) == {i \in 1..Len(df) : "error" \notin DOMAIN df[i]}

RECURSIVE SumRows(_, _, _)
SumRows(df, members, c) ==
    IF members = {} THEN Zero
    ELSE LET i == CHOOSE m \in members : TRUE
         IN  FAdd(df[i][c], SumRows(df, members \ {i}, c))

\* C5: every mean is taken over the success rows only: it is the sum of the
\* column over the success rows divided by their number; error rows add
\* nothing and are not counted.
C5_MeansSkipErrorRows ==
    (GateDone /\ Loaded) =>
        LET good == SuccessRows(results_df)
        IN  /\ good = {} => DOMAIN means = {}
            /\ \A c \in DOMAIN means :
                  /\ good # {}
                  /\ LET total == SumRows(results_df, good, c)
                     IN  means[c].num * total.den * Cardinality(good)
                             = total.num * means[c].den

\* C5 witness: an error row and a success row of accuracy 1/2: the mean
\* accuracy is 1/2, not 1/4.
C5_Witness ==
    /\ GateDone
    /\ Loaded
    /\ Len(results_df) = 2
    /\ Cardinality(SuccessRows(results_df)) = 1
    /\ means["extraction_acc"] = Frac(1, 2)

\* C6 as stated: on the rows of run_evals with at least one success row, the
\* gate evaluates the extraction_accuracy >= 0.95 check with the others: a
\* mean extraction accuracy below 0.95 over the success rows makes the
\* verdict False.
C6_AsStated ==
    (GateDone /\ Loaded /\ SuccessRows(results_df) # {}) =>
        LET good == SuccessRows(results_df)
            total == SumRows(results_df, good, "extraction_acc")
        IN  total.num * 100 < 95 * total.den * Cardinality(good) =>
                /\ \E k \in 1..Len(report) : report[k].metric = "extraction_accuracy"
                /\ passed = FALSE

\* An entry of the dataset that misses a required field.
MissingField(eval_case) ==
    \/ {"id", "document", "expected_output"} \ DOMAIN eval_case # {}
    \/ "questions" \notin DOMAIN eval_case.expected_output

\* C7 as stated: an entry missing a required field fails for that case only:
\* the run is never aborted, the entry gets an error row, and a returned
\* DataFrame has a row for every case.
C7_AsStated ==
    Loaded =>
        /\ pc # "crashed"
        /\ \A i \in 1..Len(results) :
              MissingField(eval_dataset[i]) => "error" \in DOMAIN results[i]
        /\ Returned => Len(results_df) = Len(eval_dataset)

\* C8: run_evals returns one row per case, in input order: while it runs,
\* the rows are those of the cases before the loop's position, and the
\* DataFrame it returns has, at each position, the id of the case there.
C8_RowsInOrder ==
    (Loaded /\ pc # "crashed") =>
        /\ Len(results) = idx - 1
        /\ \A i \in 1..Len(results) :
              results[i].eval_id = PyStr(eval_dataset[i].id)
        /\ Returned =>
              /\ Len(results_df) = Len(eval_dataset)
              /\ \A i \in 1..Len(eval_dataset) :
                    results_df[i].eval_id = PyStr(eval_dataset[i].id)

\* C8 witness: a returned DataFrame of two cases with different ids, the
\* first failed and the second scored.
C8_Witness ==
    /\ Returned
    /\ Len(results_df) = 2
    /\ results_df[1].eval_id = PyStr("e2")
    /\ results_df[2].eval_id = PyStr("e1")
    /\ "error" \in DOMAIN results_df[1]
    /\ "error" \notin DOMAIN results_df[2]

\* The process has ended, by sys.exit or by an uncaught exception.
Ended == pc \in {"exited", "crashed"}

\* C12 as stated: given a dataset argument the tool runs all cases, writes
\* the results table, then runs the gate, and exits with status 0 exactly
\* when the verdict is pass and 1 otherwise: the table is written only once
\* every case has its row, the gate runs only on the written table, and the
\* process ends only after the gate, with the status of its verdict. Given no
\* dataset argument it exits with status 1, no case run and nothing written.
C12_AsStated ==
    /\ (Len(argv) >= 2 /\ pc \in {"to_csv", "check_pass_fail", "sys_exit"} \cup {"exited", "crashed"}) =>
           /\ Len(results) = Len(eval_dataset)
           /\ Len(scored) = Len(eval_dataset)
    /\ (Len(argv) >= 2 /\ pc \in {"check_pass_fail", "sys_exit"} \cup {"exited", "crashed"}) =>
           csv_file = results
    /\ (Len(argv) >= 2 /\ Ended) =>
           /\ GateDone
           /\ passed \in BOOLEAN
           /\ exit_code = (IF passed = TRUE THEN 0 ELSE 1)
    /\ (Len(argv) < 2 /\ Ended) =>
           /\ exit_code = 1
           /\ results = <<>> /\ scored = <<>>
           /\ csv_file = None /\ means = None

----------------------------------------------------------------------------
(* Properties of check_pass_fail (SpecGate) *)

MaeMetrics == {"clarity_mae", "specificity_mae", "bias_mae", "actionability_mae"}

\* C2: for every metric of the threshold table present in the means, the
\* printed check passes exactly when mean <= threshold for a _mae metric and
\* mean >= threshold for any other; only those metrics are checked; and the
\* verdict is True exactly when every printed check passed.
C2_ThresholdChecks ==
    GateDone =>
        /\ \A metric \in DOMAIN THRESHOLDS \cap DOMAIN means :
              \E k \in 1..Len(report) :
                  /\ report[k].metric = metric
                  /\ LET mean == means[metric]
                         threshold == THRESHOLDS[metric]
                     IN  report[k].passed =
                             (IF metric \in MaeMetrics
                              THEN mean.num * threshold.den <= threshold.num * mean.den
                              ELSE mean.num * threshold.den >= threshold.num * mean.den)
        /\ \A k \in 1..Len(report) :
              report[k].metric \in DOMAIN THRESHOLDS \cap DOMAIN means
        /\ Len(report) = Cardinality(DOMAIN THRESHOLDS \cap DOMAIN means)
        /\ passed = (\A k \in 1..Len(report) : report[k].passed)

\* C2 witness: a _mae mean and a within-1 mean both exactly at their
\* thresholds: both checks pass and the verdict is True.
C2_Witness ==
    /\ GateDone
    /\ DOMAIN means = {"bias_mae", "clarity_within_1"}
    /\ means["bias_mae"] = Frac(7, 10)
    /\ means["clarity_within_1"] = Frac(85, 100)
    /\ Len(report) = 2
    /\ passed = TRUE

----------------------------------------------------------------------------
(* Properties of check_pass_fail followed by sys.exit (SpecGateExit) *)

\* Column c of the frame holds numbers: some row has it, and every row that
\* has it holds a float there.
IsNumericColumn(df, c) ==
    /\ \E i \in 1..Len(df) : c \in DOMAIN df[i]
    /\ \A i \in 1..Len(df) :
          c \in DOMAIN df[i] => DOMAIN df[i][c] = {"num", "den"}

\* C13: when no metric name of the threshold table is a numeric column of
\* the rows (in particular when every row is an error row, or there is no
\* row), check_pass_fail evaluates no check and returns True, and the
\* process exits with status 0.
C13_PassByOmission ==
    GateDone =>
        ((\A metric \in DOMAIN THRESHOLDS : ~IsNumericColumn(results_df, metric)) =>
            /\ report = <<>>
            /\ passed = TRUE
            /\ (pc = "exited" => exit_code = 0))

\* C13 witness: a frame whose only row is an error row went through the gate
\* with no check evaluated, and the process exited with status 0.
C13_Witness ==
    /\ GateDone
    /\ pc = "exited"
    /\ Len(results_df) = 1
    /\ DOMAIN results_df[1] = {"eval_id", "error"}
    /\ report = <<>>
    /\ passed = TRUE
    /\ exit_code = 0

====
